---- MODULE Spec2Model ----
(***************************************************************************)
(* The Place view of the rental-catalog REST API (api/v1/views/places.py): *)
(* the /places_search filter, and the create and delete handlers that      *)
(* change the set of Places the filter reads.                              *)
(***************************************************************************)
EXTENDS Integers, Sequences, FiniteSets, TLC

VARIABLES storage, storage_t, created, request, response

vars == <<storage, storage_t, created, request, response>>

\* ------------------------------------------------------------------ bounds
\* most identifiers a search request names, over its three lists
MaxIds == 3
\* number of Places add_place may create
MaxNew == 1

\* ------------------------------------------------------- values and inputs
\* Python's None (storage.get of an unknown id, request.json of a null body)
None == "None"

Range(s) == {s[i] : i \in DOMAIN s}

SeqsUpTo(S, n) == UNION {[1..k -> S] : k \in 0..n}

\* identifiers a request may name: existing ones and one that resolves to
\* nothing
StateIdsNamed == {"S1", "SX"}
CityIdsNamed == {"C1", "C2", "CX"}
AmenityIdsNamed == {"A1", "A2", "AX"}
UserIdsNamed == {"U1", "UX"}

\* dict.get(key, default)
Get(fields, key, default) ==
    IF key \in DOMAIN fields THEN fields[key] ELSE default

\* JSON objects a search request may carry: any subset of the three keys,
\* each an array of identifier strings
IdLists(key) ==
    CASE key = "states" -> SeqsUpTo(StateIdsNamed, MaxIds)
      [] key = "cities" -> SeqsUpTo(CityIdsNamed, MaxIds)
      [] key = "amenities" -> SeqsUpTo(AmenityIdsNamed, MaxIds)

SearchKeys == {"states", "cities", "amenities"}

\* a key the object does not carry
Absent == <<"absent">>

Object(states, cities, amenities) ==
    LET all == [k \in SearchKeys |->
                  CASE k = "states" -> states
                    [] k = "cities" -> cities
                    [] k = "amenities" -> amenities]
    IN  [k \in {x \in SearchKeys : all[x] # Absent} |-> all[k]]

\* identifiers a list contributes to the request
Size(ids) == IF ids = Absent THEN 0 ELSE Len(ids)

SearchObjects ==
    {Object(t[1], t[2], t[3]) :
        t \in {u \in (IdLists("states") \cup {Absent})
                       \X (IdLists("cities") \cup {Absent})
                       \X (IdLists("amenities") \cup {Absent}) :
                 Size(u[1]) + Size(u[2]) + Size(u[3]) <= MaxIds}}

\* request.json: None for a body that is not JSON, otherwise the decoded
\* value, which is a dict for a JSON object and a list for a JSON array
SearchBodies ==
    {[kind |-> "none", fields |-> <<>>], [kind |-> "array", fields |-> <<>>]}
    \cup {[kind |-> "object", fields |-> f] : f \in SearchObjects}

\* ------------------------------------------------------------------ storage
\* id of the n-th Place created by the API
NewPlaceId(n) == "P" \o ToString(3 + n)

\* place ids a delete request names: a stored Place and one that resolves to
\* nothing
PlaceIdsNamed == {"P1", "PX"}

\* a Place object
NewPlace(city_id, user_id, name) ==
    [city_id |-> city_id, user_id |-> user_id, name |-> name,
     amenities |-> {}, amenity_ids |-> <<>>]

PlaceWith(city_id, amenity_list) ==
    [NewPlace(city_id, "U1", "n") EXCEPT !.amenities = Range(amenity_list),
                                         !.amenity_ids = amenity_list]

\* storage.get(cls, id): the object (named by its id) or None
StorageGet(store, cls, id) ==
    IF id \in DOMAIN store[cls] THEN id ELSE None

\* storage.all(cls).values()
StorageAll(store, cls) == DOMAIN store[cls]

\* state.cities and city.places
StateCities(store, state) ==
    {c \in DOMAIN store.City : store.City[c].state_id = state}

CityPlaces(store, city) ==
    {p \in DOMAIN store.Place : store.Place[p].city_id = city}

\* ------------------------------------------------------------ filter_places
\* places = set(); if fields == {} or (states == [] and cities == []):
\*     places = set(storage.all("Place").values())
LocationBase_or(store, fields, states, cities) ==
    IF DOMAIN fields = {} \/ (states = <<>> \/ cities = <<>>)
    THEN StorageAll(store, "Place")
    ELSE {}

LocationBase_empty_dict(store, fields, states, cities) ==
    IF DOMAIN fields = {}
    THEN StorageAll(store, "Place")
    ELSE {}

LocationBase(store, fields, states, cities) ==
    IF DOMAIN fields = {} \/ (states = <<>> /\ cities = <<>>)
    THEN StorageAll(store, "Place")
    ELSE {}

\* for state_id in states: ... places.add(place)
PlacesOfStates(store, states) ==
    UNION {UNION {CityPlaces(store, city) : city \in StateCities(store, state)} :
             state \in {StorageGet(store, "State", state_id) :
                          state_id \in Range(states)} \ {None}}

\* for city_id in cities: ... places.add(place)
PlacesOfCities(store, cities) ==
    UNION {CityPlaces(store, city) :
             city \in {StorageGet(store, "City", city_id) :
                         city_id \in Range(cities)} \ {None}}

\* amenities = set(amenities); temp = the ids storage.get resolves
ResolvedAmenities_unchecked(store, amenities) ==
    Range(amenities)

ResolvedAmenities(store, amenities) ==
    {amenity_id \in Range(amenities) :
        StorageGet(store, "Amenity", amenity_id) # None}

\* the amenity-identifier set of a Place, read as the storage mode exposes it
AmenitiesId(store, t, place) ==
    IF t = "db"
    THEN {amenity : amenity \in store.Place[place].amenities}
    ELSE Range(store.Place[place].amenity_ids)

\* if not set(amenities).issubset(amenities_id): to_remove.add(place)
ToRemove_superset(store, t, places, amenities) ==
    {place \in places : ~(AmenitiesId(store, t, place) \subseteq amenities)}

ToRemove_any(store, t, places, amenities) ==
    {place \in places :
        amenities # {} /\ amenities \cap AmenitiesId(store, t, place) = {}}

ToRemove_negated(store, t, places, amenities) ==
    {place \in places : amenities \subseteq AmenitiesId(store, t, place)}

ToRemove(store, t, places, amenities) ==
    {place \in places : ~(amenities \subseteq AmenitiesId(store, t, place))}

\* del place.amenities, for every candidate the amenity loop visits
DelAmenities(store, places) ==
    [store EXCEPT !.Place =
        [p \in DOMAIN store.Place |->
            IF p \in places
            THEN [store.Place[p] EXCEPT !.amenities = {}]
            ELSE store.Place[p]]]

Response(status, reason, result, candidates, store, looked) ==
    [status |-> status, reason |-> reason, result |-> result,
     candidates |-> candidates, store |-> store, looked |-> looked]

\* the whole handler: the response, the candidate set it passed through and
\* the storage it leaves
FilterPlaces(store, t, body) ==
    IF body.kind = "none"
    THEN Response(400, "Not a JSON", {}, {}, store, FALSE)
    ELSE IF body.kind # "object"
    THEN \* fields.get on a list: AttributeError, an internal server error
         Response(500, "Internal Server Error", {}, {}, store, FALSE)
    ELSE
      LET fields == body.fields
          states == Get(fields, "states", <<>>)
          cities == Get(fields, "cities", <<>>)
          amenities == Get(fields, "amenities", <<>>)
          places == LocationBase(store, fields, states, cities)
                      \cup PlacesOfStates(store, states)
                      \cup PlacesOfCities(store, cities)
      IN  IF amenities # <<>>
          THEN Response(200, "",
                        places \ ToRemove(store, t, places,
                                          ResolvedAmenities(store, amenities)),
                        places, DelAmenities(store, places), TRUE)
          ELSE Response(200, "", places, places, store, TRUE)

\* ---------------------------------------------------------------- add_place
AddFields ==
    UNION {[K -> UserIdsNamed \cup CityIdsNamed \cup {"n", None}] :
             K \in SUBSET {"user_id", "name", "city_id"}}

AddObjects ==
    {f \in AddFields :
        /\ "user_id" \in DOMAIN f => f["user_id"] \in UserIdsNamed \cup {None}
        /\ "name" \in DOMAIN f => f["name"] \in {"n", None}
        /\ "city_id" \in DOMAIN f => f["city_id"] \in {"C1", "C2"}}

AddBodies ==
    {[kind |-> "none", fields |-> <<>>], [kind |-> "array", fields |-> <<>>]}
    \cup {[kind |-> "object", fields |-> f] : f \in AddObjects}

\* fields['city_id'] = city_id
SetCityId_default(fields, city_id) ==
    [k \in DOMAIN fields \cup {"city_id"} |->
        IF k \in DOMAIN fields THEN fields[k] ELSE city_id]

SetCityId(fields, city_id) ==
    [k \in DOMAIN fields \cup {"city_id"} |->
        IF k = "city_id" THEN city_id ELSE fields[k]]

\* new_place = Place(**fields); new_place.save()
SavePlace(store, id, fields) ==
    [store EXCEPT !.Place =
        [p \in DOMAIN store.Place \cup {id} |->
            IF p = id
            THEN NewPlace(fields["city_id"], fields["user_id"], fields["name"])
            ELSE store.Place[p]]]

AddPlace(store, id, city_id, body) ==
    IF StorageGet(store, "City", city_id) = None
    THEN Response(404, "Not found", {}, {}, store, TRUE)
    ELSE IF body.kind = "none"
    THEN Response(400, "Not a JSON", {}, {}, store, TRUE)
    ELSE IF body.kind # "object"
    THEN Response(500, "Internal Server Error", {}, {}, store, TRUE)
    ELSE IF Get(body.fields, "user_id", None) = None
    THEN Response(400, "Missing user_id", {}, {}, store, TRUE)
    ELSE IF StorageGet(store, "User", body.fields["user_id"]) = None
    THEN Response(404, "Not found", {}, {}, store, TRUE)
    ELSE IF Get(body.fields, "name", None) = None
    THEN Response(400, "Missing name", {}, {}, store, TRUE)
    ELSE Response(201, "", {id}, {},
                  SavePlace(store, id, SetCityId(body.fields, city_id)), TRUE)

\* ------------------------------------------------------------- delete_place
\* place_obj.delete(); storage.save()
DeleteObj(store, place_id) ==
    [store EXCEPT !.Place =
        [p \in DOMAIN store.Place \ {place_id} |-> store.Place[p]]]

DeletePlace(store, place_id) ==
    IF StorageGet(store, "Place", place_id) = None
    THEN Response(404, "Not found", {}, {}, store, TRUE)
    ELSE Response(200, "", {}, {}, DeleteObj(store, place_id), TRUE)

\* ------------------------------------------------------------ state machine
NoJson == [kind |-> "none", fields |-> <<>>]

\* flask.request: the endpoint the URL is routed to, the identifier in the
\* URL and request.json
Request(endpoint, arg, json) ==
    [endpoint |-> endpoint, arg |-> arg, json |-> json]

NoRequest == Request("", "", NoJson)

\* what a handler returned, with the request it answered and the storage it
\* started from
Answer(req, pre, r) ==
    [request |-> req, pre |-> pre,
     status |-> r.status, reason |-> r.reason, result |-> r.result,
     candidates |-> r.candidates, looked |-> r.looked]

NoResponse == Answer(NoRequest, <<>>, Response(0, "", {}, {}, <<>>, FALSE))

Requests ==
    {Request("filter_places", "", json) : json \in SearchBodies}
    \cup {Request("add_place", city_id, json) :
            city_id \in CityIdsNamed, json \in AddBodies}
    \cup {Request("delete_place", place_id, NoJson) :
            place_id \in PlaceIdsNamed}

\* the catalog before any request: State S1 with City C1 and its Places P1
\* and P2, State S2 with City C2 and its Place P3
InitStorage ==
    [State |-> [s \in {"S1", "S2"} |-> [name |-> s]],
     City |-> [c \in {"C1", "C2"} |->
                 [state_id |-> IF c = "C1" THEN "S1" ELSE "S2"]],
     Amenity |-> [a \in {"A1", "A2"} |-> [name |-> a]],
     User |-> [u \in {"U1"} |-> [name |-> u]],
     Place |-> [p \in {"P1", "P2", "P3"} |->
                 CASE p = "P1" -> PlaceWith("C1", <<"A1", "A2">>)
                   [] p = "P2" -> PlaceWith("C1", <<"A1">>)
                   [] p = "P3" -> PlaceWith("C2", <<>>)]]

Init ==
    /\ storage_t \in {"db", "file"}
    /\ storage = InitStorage
    /\ created = 0
    /\ request = NoRequest
    /\ response = NoResponse

\* a client's request is routed to its handler
route ==
    /\ request = NoRequest
    /\ response = NoResponse
    /\ request' \in Requests
    /\ UNCHANGED <<storage, storage_t, created, response>>

\* the client repeats the request it was just answered, nothing in between
repeat ==
    /\ request = NoRequest
    /\ response # NoResponse
    /\ request' = response.request
    /\ UNCHANGED <<storage, storage_t, created, response>>

\* the client takes the answer
deliver ==
    /\ request = NoRequest
    /\ response # NoResponse
    /\ response' = NoResponse
    /\ UNCHANGED <<storage, storage_t, created, request>>

filter_places ==
    /\ request.endpoint = "filter_places"
    /\ LET r == FilterPlaces(storage, storage_t, request.json)
       IN  /\ storage' = r.store
           /\ response' = Answer(request, storage, r)
    /\ request' = NoRequest
    /\ UNCHANGED <<storage_t, created>>

add_place ==
    /\ request.endpoint = "add_place"
    /\ LET r == AddPlace(storage, NewPlaceId(created + 1), request.arg,
                         request.json)
       IN  /\ r.status = 201 => created < MaxNew
           /\ storage' = r.store
           /\ created' = IF r.status = 201 THEN created + 1 ELSE created
           /\ response' = Answer(request, storage, r)
    /\ request' = NoRequest
    /\ UNCHANGED storage_t

delete_place ==
    /\ request.endpoint = "delete_place"
    /\ LET r == DeletePlace(storage, request.arg)
       IN  /\ storage' = r.store
           /\ response' = Answer(request, storage, r)
    /\ request' = NoRequest
    /\ UNCHANGED <<storage_t, created>>

Next ==
    \/ route
    \/ repeat
    \/ deliver
    \/ filter_places
    \/ add_place
    \/ delete_place

Spec == Init /\ [][Next]_vars

\* ---------------------------------------------------------------- properties
\* the last answer is a completed search
Searched ==
    /\ response.request.endpoint = "filter_places"
    /\ response.status = 200

Fields == response.request.json.fields
StateIds == Get(Fields, "states", <<>>)
CityIds == Get(Fields, "cities", <<>>)
AmenityIds == Get(Fields, "amenities", <<>>)

\* the Places of the storage the search started from
AllPlaces == DOMAIN response.pre.Place

\* a Place lies in a City of a named, existing State
InNamedState(p) ==
    LET c == response.pre.Place[p].city_id
    IN  /\ c \in DOMAIN response.pre.City
        /\ response.pre.City[c].state_id
             \in Range(StateIds) \cap DOMAIN response.pre.State

\* a Place lies in a named, existing City
InNamedCity(p) ==
    response.pre.Place[p].city_id \in Range(CityIds) \cap DOMAIN response.pre.City

LocationUnion == {p \in AllPlaces : InNamedState(p) \/ InNamedCity(p)}

\* the requested amenity identifiers that resolve
Normalized == Range(AmenityIds) \cap DOMAIN response.pre.Amenity

\* the amenity identifiers of a Place before the search
AmenitySet(p) ==
    IF storage_t = "db"
    THEN response.pre.Place[p].amenities
    ELSE Range(response.pre.Place[p].amenity_ids)

HasAll(p) == Normalized \subseteq AmenitySet(p)

\* C1: when state_ids or city_ids is non-empty, the candidate set is exactly
\* the set of Places lying in a City of a named existing State or in a named
\* existing City, every returned Place is one of them, and without
\* amenity_ids the result is that whole set.
C1_CandidatesAreLocationUnion ==
    (Searched /\ (StateIds # <<>> \/ CityIds # <<>>)) =>
        /\ response.candidates = LocationUnion
        /\ response.result \subseteq LocationUnion
        /\ AmenityIds = <<>> => response.result = LocationUnion

\* a search naming a State and one of its Cities, whose Places are reached
\* both ways
C1_Witness ==
    /\ Searched
    /\ AmenityIds = <<>>
    /\ \E p \in response.result : InNamedState(p) /\ InNamedCity(p)
    /\ response.result # AllPlaces

\* C2: with non-empty amenity_ids a candidate is returned exactly when the
\* requested identifiers that resolve are all among its amenity identifiers;
\* without a location filter these are the Places of storage having them all.
C2_AmenitySubsetTest ==
    (Searched /\ AmenityIds # <<>>) =>
        /\ response.result = {p \in response.candidates : HasAll(p)}
        /\ (StateIds = <<>> /\ CityIds = <<>>) =>
              response.result = {p \in AllPlaces : HasAll(p)}

\* a search that keeps a Place with more amenities than asked and drops one
\* that lacks a requested amenity
C2_Witness ==
    /\ Searched
    /\ Normalized # {}
    /\ \E p \in response.result : AmenitySet(p) \ Normalized # {}
    /\ \E p \in response.candidates \ response.result : AmenitySet(p) # {}

\* C3: with state_ids, city_ids and amenity_ids all empty or absent the
\* result is every Place in storage.
C3_EmptyRequestReturnsAll ==
    (Searched /\ StateIds = <<>> /\ CityIds = <<>> /\ AmenityIds = <<>>) =>
        response.result = AllPlaces

\* a search with keys present but empty, on a storage holding Places
C3_Witness ==
    /\ Searched
    /\ DOMAIN Fields = SearchKeys
    /\ StateIds = <<>> /\ CityIds = <<>> /\ AmenityIds = <<>>
    /\ response.result # {}

\* C4 as stated: a request naming only amenities returns all Places, the
\* amenity filter being skipped.
C4_AmenityFilterSkipped ==
    (Searched /\ StateIds = <<>> /\ CityIds = <<>> /\ AmenityIds # <<>>) =>
        response.result = AllPlaces

OnlyA1OnCatalog ==
    /\ Searched
    /\ response.pre = InitStorage
    /\ DOMAIN Fields = {"amenities"}
    /\ AmenityIds = <<"A1">>

\* C4 amended: a request naming only amenities has every Place as a
\* candidate and the amenity filter is applied to them; on the catalog
\* P1 {A1,A2}, P2 {A1}, P3 {} the request amenities=[A1] returns {P1, P2}.
C4_AmenityFilterApplied ==
    /\ (Searched /\ StateIds = <<>> /\ CityIds = <<>> /\ AmenityIds # <<>>) =>
          /\ response.candidates = AllPlaces
          /\ AllPlaces \ response.result = {p \in AllPlaces : ~HasAll(p)}
    /\ OnlyA1OnCatalog => response.result = {"P1", "P2"}

C4_Witness == OnlyA1OnCatalog /\ response.result # AllPlaces

\* C5: a search leaves the stored entities and their relations as they were.
C5_SearchIsReadOnly ==
    response.request.endpoint = "filter_places" => storage = response.pre

\* C6: the same search repeated with nothing in between gives the same
\* result.
C6_SearchIsIdempotent ==
    [][(request.endpoint = "filter_places" /\ response.request = request) =>
          (response'.status = response.status /\
           response'.result = response.result)]_vars

\* the search with one more amenity identifier
WithAmenity(json, a) ==
    [json EXCEPT !.fields =
        [k \in DOMAIN json.fields \cup {"amenities"} |->
            IF k = "amenities"
            THEN Append(Get(json.fields, "amenities", <<>>), a)
            ELSE json.fields[k]]]

Narrowed(a) ==
    FilterPlaces(response.pre, storage_t,
                 WithAmenity(response.request.json, a)).result

\* C7: adding an amenity identifier to a search gives, on the same storage,
\* a subset of its result.
C7_AddingAmenityShrinks ==
    Searched => \A a \in AmenityIdsNamed : Narrowed(a) \subseteq response.result

\* a search whose result one more amenity makes strictly smaller, not empty
C7_Witness ==
    /\ Searched
    /\ AmenityIds # <<>>
    /\ \E a \in AmenityIdsNamed :
          Narrowed(a) # {} /\ Narrowed(a) # response.result

\* the identifiers of a list that resolve, in their order
Resolving(ids, cls) ==
    SelectSeq(ids, LAMBDA id : id \in DOMAIN response.pre[cls])

ClassOf(key) ==
    CASE key = "states" -> "State"
      [] key = "cities" -> "City"
      [] key = "amenities" -> "Amenity"

\* the search with the identifiers under the given keys that do not resolve
\* taken out
Cleaned(json, keys) ==
    [json EXCEPT !.fields =
        [k \in DOMAIN json.fields |->
            IF k \in keys
            THEN Resolving(json.fields[k], ClassOf(k))
            ELSE json.fields[k]]]

ResultOf(json) == FilterPlaces(response.pre, storage_t, json).result

HasUnknown(ids, cls) == Range(ids) \ DOMAIN response.pre[cls] # {}

\* C8: identifiers that do not resolve give no error and no wider result:
\* the result is within that of the search without them, unknown states and
\* cities bring no candidates, and unknown amenities change nothing.
C8_UnknownIdsNeverWiden ==
    /\ (response.request.endpoint = "filter_places"
          /\ response.request.json.kind = "object") => response.status = 200
    /\ Searched =>
          /\ response.result
               \subseteq ResultOf(Cleaned(response.request.json, SearchKeys))
          /\ response.result
               = ResultOf(Cleaned(response.request.json, {"amenities"}))
          /\ ((StateIds # <<>> \/ CityIds # <<>>)
                /\ Resolving(StateIds, "State") = <<>>
                /\ Resolving(CityIds, "City") = <<>>) => response.result = {}

\* a search naming an unknown state and an unknown amenity next to a known
\* city, which returns the Places of that city and not all Places
C8_Witness ==
    /\ Searched
    /\ HasUnknown(StateIds, "State")
    /\ HasUnknown(AmenityIds, "Amenity")
    /\ response.result # {}
    /\ response.result # AllPlaces

\* C9: a search either is rejected with 400 "Not a JSON" before any storage
\* lookup, its body not being JSON, or completes with a list of Places.
C9_TwoOutcomes ==
    response.request.endpoint = "filter_places" =>
        \/ /\ response.request.json.kind = "none"
           /\ response.status = 400
           /\ response.reason = "Not a JSON"
           /\ ~response.looked
        \/ /\ response.request.json.kind # "none"
           /\ response.status = 200

AddFieldsGiven == response.request.json.fields

\* the outcome add_place owes a request, its checks taken in order
AddOutcome ==
    LET json == response.request.json
    IN  IF response.request.arg \notin DOMAIN response.pre.City
        THEN <<404, "Not found">>
        ELSE IF json.kind = "none" THEN <<400, "Not a JSON">>
        ELSE IF json.kind # "object" THEN <<500, "Internal Server Error">>
        ELSE IF "user_id" \notin DOMAIN json.fields
                  \/ json.fields["user_id"] = None
        THEN <<400, "Missing user_id">>
        ELSE IF json.fields["user_id"] \notin DOMAIN response.pre.User
        THEN <<404, "Not found">>
        ELSE IF "name" \notin DOMAIN json.fields \/ json.fields["name"] = None
        THEN <<400, "Missing name">>
        ELSE <<201, "">>

\* C10: add_place checks the city, the JSON body, user_id, the user and the
\* name in that order; an error leaves storage unchanged, and a success adds
\* one new Place whose city_id is the one in the URL.
C10_AddPlaceChecks ==
    response.request.endpoint = "add_place" =>
        /\ <<response.status, response.reason>> = AddOutcome
        /\ response.status # 201 => storage = response.pre
        /\ response.status = 201 =>
              \E id \in DOMAIN storage.Place \ DOMAIN response.pre.Place :
                 /\ DOMAIN storage.Place = DOMAIN response.pre.Place \cup {id}
                 /\ \A p \in DOMAIN response.pre.Place :
                       storage.Place[p] = response.pre.Place[p]
                 /\ storage.Place[id].city_id = response.request.arg
                 /\ storage.Place[id].user_id = AddFieldsGiven["user_id"]
                 /\ storage.Place[id].name = AddFieldsGiven["name"]
                 /\ [storage EXCEPT !.Place = response.pre.Place] = response.pre

\* a Place created in the URL's city by a body naming another city
C10_Witness ==
    /\ response.request.endpoint = "add_place"
    /\ response.status = 201
    /\ "city_id" \in DOMAIN AddFieldsGiven
    /\ AddFieldsGiven["city_id"] # response.request.arg

====
